---- MODULE Spec2Model ----
(***************************************************************************)
(* Self-healing action wrapper of ai_core/ai_self_heal.py:                 *)
(* load_cache / save_cache / log_healing_event / heal_locator /            *)
(* try_with_healing, run by one executor (Spec) or by two executors that   *)
(* share the cache file and the audit log (SpecConc); and the bulk-read     *)
(* fallback chain of ai_core/ai_agent.py, fallback_locator_list            *)
(* (SpecFallback).                                                         *)
(***************************************************************************)
EXTENDS Integers, Sequences, FiniteSets, TLC

VARIABLES
    cacheFile,   \* ai_reports/self_heal_cache.json
    auditLog,    \* ai_reports/logs/self_heal_log.txt, one record per line
    ex,          \* per executor: the frame of its try_with_healing call
    executors,   \* the executors that run against the store
    nInv,        \* number of invocations started so far
    healedOk,    \* locators whose healed retry has succeeded
    fb,          \* the frame of a fallback_locator_list call
    nz,          \* a generated text on its way through the normaliser
    ag           \* the AIAgent: its run loop and the generated source files

healVars == <<cacheFile, auditLog, ex, executors, nInv, healedOk>>

agentVars == <<fb, nz, ag>>

vars == <<cacheFile, auditLog, ex, executors, nInv, healedOk, fb, nz, ag>>

-----------------------------------------------------------------------------
\* Bounds of the model
MaxInvocations == 2
MaxRetries == 1

\* calls of the agent, and steps of a task
MaxAgentCalls == 2

MaxSteps == 2

\* Program constant
MAX_HEAL_RETRIES == 2

Executors == {1, 2}

\* Values
None == "None"
NoArg == "<no-arg>"
Dash == "-"
ReprStr == "<GenerateContentResponse>"
Composite == "<other text>"

URLs == {"https://site"}

\* The calls the generated programs make: page.<action> and its first argument
CallShapes == {<<"click", "L">>, <<"click", "H">>, <<"goto", "https://site">>,
               <<"goto", "/login">>, <<"reload", NoArg>>}
RetriesDomain == (0 - 1)..MaxRetries

\* Outcomes of one call of the action capability
Outcomes == {"ok", "ElementNotResolvable", "NetworkError", "AssertionError"}

EmptyDict == [k \in {} |-> None]

\* the assignment cache[locator] = new_locator left out
Put_Dropped(d, k, v) == d

\* cache[k] = v
Put(d, k, v) == [x \in (DOMAIN d) \cup {k} |-> IF x = k THEN v ELSE d[x]]

-----------------------------------------------------------------------------
\* except Exception instead of except PlaywrightError
IsPlaywrightError_AnyException(o) == o # "ok"

\* except PlaywrightError: playwright.sync_api.Error is the base class of
\* every error the browser driver raises (element not resolvable, timeouts,
\* net::ERR_* navigation failures); AssertionError is not one of them.
IsPlaywrightError(o) == o \in {"ElementNotResolvable", "NetworkError"}

\* first.startswith("http://") or first.startswith("https://")
StartsWithHttp(s) == s \in URLs

\* load_cache(): the parsed file, {} when absent or when json.load raises
load_cache(file) == IF file.state = "json" THEN file.data ELSE EmptyDict

\* open(CACHE_FILE, "w") truncates the file
open_w(file) == [state |-> "truncated", data |-> EmptyDict]

\* json.dump(cache_data, f) and close
json_dump(cache_data) == [state |-> "json", data |-> cache_data]

\* an event that is not written
log_healing_event_Silent(log, old_locator, new_locator, action, status) == log

\* log_healing_event appends one line
log_healing_event(log, old_locator, new_locator, action, status) ==
    Append(log, [old |-> old_locator, new |-> new_locator,
                 action |-> action, status |-> status])

-----------------------------------------------------------------------------
\* Text of a response, as a sequence of tokens: a space, a code fence or a
\* selector.
SP == " "
FENCE == "<fence>"

RECURSIVE lstrip(_)
lstrip(s) == IF s # <<>> /\ Head(s) = SP THEN lstrip(Tail(s)) ELSE s

RECURSIVE rstrip(_)
rstrip(s) == IF s # <<>> /\ s[Len(s)] = SP
             THEN rstrip(SubSeq(s, 1, Len(s) - 1)) ELSE s

strip(s) == rstrip(lstrip(s))

\* .replace(<three backquotes>, "")
replace_fence(s) == SelectSeq(s, LAMBDA t : t # FENCE)

\* the string a token sequence spells
Join(s) == IF Len(s) = 1 THEN s[1] ELSE Composite

\* What model.generate_content does: raise, or return a response object
\* (with a text attribute, whose str() is its repr), or a plain string
\* (no text attribute, str() is the string itself).
Texts == { <<>>, <<SP>>, <<FENCE>>, <<FENCE, SP, FENCE>>,
           <<"L">>, <<"H">>, <<SP, "H", SP>>, <<FENCE, "H2", FENCE>>,
           <<"H2">> }

Responses ==
    {[raises |-> TRUE, hasText |-> FALSE, text |-> <<>>, str |-> <<>>]}
    \cup {[raises |-> FALSE, hasText |-> TRUE, text |-> t, str |-> <<ReprStr>>]
            : t \in Texts}
    \cup {[raises |-> FALSE, hasText |-> FALSE, text |-> <<>>, str |-> t]
            : t \in Texts}

\* heal_locator: the selector proposed by the model, or None
\* What the model answered: raised, text == "", only blanks and fences, or
\* some text
ResponseKind(resp) ==
    IF resp.raises THEN "raises"
    ELSE LET given == IF resp.hasText THEN resp.text ELSE resp.str
         IN  IF given = <<>> THEN "empty"
             ELSE IF strip(replace_fence(strip(given))) = <<>> THEN "blank"
             ELSE "text"

heal_locator(resp) ==
    IF resp.raises THEN None
    ELSE LET attr == IF resp.hasText THEN resp.text ELSE <<>>
             raw == IF attr # <<>> THEN attr ELSE resp.str
             new_locator == strip(replace_fence(strip(raw)))
         IN  IF new_locator = <<>> THEN None ELSE Join(new_locator)

-----------------------------------------------------------------------------
\* the lookup forgotten: the locator is used as given
ResolveLocator_NoLookup(cache, locator) == locator

\* locator in cache -> healed locator
ResolveLocator(cache, locator) ==
    IF locator \in DOMAIN cache THEN cache[locator] ELSE locator

\* the test without the comparison with the failing locator
NoSuggestion_NoneOnly(new_locator, locator) == new_locator = None

\* if not new_locator or new_locator == locator
NoSuggestion(new_locator, locator) ==
    new_locator = None \/ new_locator = locator

\* a loop that is never entered
PrimaryLoopGuard_Never(attempt, retries) == FALSE

\* while attempt <= retries
PrimaryLoopGuard(attempt, retries) == attempt <= retries

\* the counter of the healed retries left as it is
NextHealTry_Stuck(heal_try) == heal_try

\* heal_try += 1
NextHealTry(heal_try) == heal_try + 1

\* The states an invocation goes through
PENDING == "PENDING"
RUNNING == "RUNNING"
HEALING == "HEALING"
RUNNING_RETRY == "RUNNING(retry)"
SUCCEEDED == "SUCCEEDED"
FAILED == "FAILED"

\* the trace extended by a state, unless the invocation is in it already
Enter(trace, state) ==
    IF trace # <<>> /\ trace[Len(trace)] = state THEN trace ELSE Append(trace, state)

\* the healed-retry loop with an off-by-one bound
HealLoopGuard_OffByOne(heal_try) == heal_try <= MAX_HEAL_RETRIES

\* while heal_try < MAX_HEAL_RETRIES
HealLoopGuard(heal_try) == heal_try < MAX_HEAL_RETRIES

\* The frame of a call before it starts
Frame ==
    [pc |-> "idle", path |-> "none", action |-> "click", first |-> NoArg,
     retries |-> 0, locator |-> NoArg, cache |-> EmptyDict, loaded |-> EmptyDict,
     attempt |-> 0, heal_try |-> 0, new_locator |-> None, e |-> "none",
     result |-> "none", calls |-> <<>>, primary |-> "none", suggests |-> 0,
     resp_kind |-> "none", logged |-> <<>>, saves |-> 0,
     trace |-> <<>>, log0 |-> 0]

\* A single executor runs its calls one after the other; concurrent executors
\* run one call each.
MayCall(p) ==
    IF executors = {1}
    THEN ex[p].pc \in {"idle", "done"} /\ nInv < MaxInvocations
    ELSE ex[p].pc = "idle"

\* try_with_healing(model, page, action_func, *args, retries=r): entry checks
Call(p) ==
    /\ p \in executors
    /\ MayCall(p)
    /\ \E shape \in CallShapes, callable \in BOOLEAN, r \in RetriesDomain :
         LET first == shape[2]
             f == [Frame EXCEPT !.action = shape[1], !.first = first,
                                !.retries = r, !.trace = <<PENDING>>,
                                !.log0 = Len(auditLog)]
         IN  ex' = [ex EXCEPT ![p] =
               IF ~callable
               THEN [f EXCEPT !.pc = "done", !.path = "invalid",
                              !.result = "ValueError",
                              !.trace = <<PENDING, FAILED>>]
               ELSE IF first = NoArg
               THEN [f EXCEPT !.pc = "direct", !.path = "noarg"]
               ELSE IF StartsWithHttp(first)
               THEN [f EXCEPT !.pc = "direct", !.path = "nav"]
               ELSE [f EXCEPT !.pc = "load", !.path = "locator",
                              !.locator = first]]
    /\ nInv' = nInv + 1
    /\ UNCHANGED <<cacheFile, auditLog, executors, healedOk, agentVars>>

\* action_func() / action_func(first, ...) of the no-arg and navigation paths
DirectCall(p) ==
    /\ p \in executors
    /\ ex[p].pc = "direct"
    /\ \E o \in Outcomes :
         ex' = [ex EXCEPT ![p] =
                  [@ EXCEPT !.pc = "done",
                            !.calls = Append(@, ex[p].first),
                            !.trace = Append(Enter(@, RUNNING),
                                             IF o = "ok" THEN SUCCEEDED ELSE FAILED),
                            !.result = IF o = "ok" THEN "returned" ELSE o]]
    /\ UNCHANGED <<cacheFile, auditLog, executors, nInv, healedOk, agentVars>>

\* the use of a cached locator written to the audit log as CACHE_USED
CacheUsed_Audited(log, cache, locator, action) ==
    IF locator \in DOMAIN cache
    THEN log_healing_event(log, locator, cache[locator], action, "CACHE_USED")
    ELSE log

\* log_info("[Self-Heal] Using cached healed locator: ..."): the use of a
\* cached locator goes to the run log; the audit log is not written
CacheUsed(log, cache, locator, action) == log

\* cache = load_cache(); if locator in cache: locator = cache[locator]
LoadCache(p) ==
    /\ p \in executors
    /\ ex[p].pc = "load"
    /\ LET cache == load_cache(cacheFile)
       IN  /\ ex' = [ex EXCEPT ![p] =
                    [@ EXCEPT !.pc = "loop",
                              !.cache = cache,
                              !.loaded = cache,
                              !.locator = ResolveLocator(cache, @),
                              !.attempt = 0]]
           /\ auditLog' = CacheUsed(auditLog, cache, ex[p].locator, ex[p].action)
    /\ UNCHANGED <<cacheFile, executors, nInv, healedOk, agentVars>>

\* one pass of the while loop up to the outcome of action_func(locator, ...)
PrimaryAttempt(p) ==
    /\ p \in executors
    /\ ex[p].pc = "loop"
    /\ PrimaryLoopGuard(ex[p].attempt, ex[p].retries)
    /\ \E o \in Outcomes :
         ex' = [ex EXCEPT ![p] =
                  [@ EXCEPT !.attempt = @ + 1,
                            !.calls = Append(@, ex[p].locator),
                            !.primary = o,
                            !.trace = Append(Enter(@, RUNNING),
                                             IF o = "ok" THEN SUCCEEDED
                                             ELSE IF IsPlaywrightError(o) THEN HEALING
                                             ELSE FAILED),
                            !.pc = IF IsPlaywrightError(o) THEN "heal" ELSE "done",
                            !.e = IF IsPlaywrightError(o) THEN o ELSE @,
                            !.result = IF o = "ok" THEN "returned"
                                       ELSE IF IsPlaywrightError(o) THEN @
                                       ELSE o]]
    /\ UNCHANGED <<cacheFile, auditLog, executors, nInv, healedOk, agentVars>>

\* the loop is left without a pass: raise PlaywrightError("Action failed ...")
LoopExit(p) ==
    /\ p \in executors
    /\ ex[p].pc = "loop"
    /\ ~PrimaryLoopGuard(ex[p].attempt, ex[p].retries)
    /\ ex' = [ex EXCEPT ![p] = [@ EXCEPT !.pc = "done",
                                         !.trace = Enter(@, FAILED),
                                         !.result = "ActionFailed"]]
    /\ UNCHANGED <<cacheFile, auditLog, executors, nInv, healedOk, agentVars>>

\* new_locator = heal_locator(...); no suggestion: log and re-raise;
\* otherwise cache[locator] = new_locator
Heal(p) ==
    /\ p \in executors
    /\ ex[p].pc = "heal"
    /\ \E resp \in Responses :
         LET new_locator == heal_locator(resp)
         IN  IF NoSuggestion(new_locator, ex[p].locator)
             THEN /\ auditLog' = log_healing_event(auditLog, ex[p].locator, Dash,
                                                   ex[p].action,
                                                   "FAILED_NO_SUGGESTION")
                  /\ ex' = [ex EXCEPT ![p] =
                              [@ EXCEPT !.pc = "done",
                                        !.suggests = @ + 1,
                                        !.resp_kind = ResponseKind(resp),
                                        !.new_locator = new_locator,
                                        !.logged = Append(@, "FAILED_NO_SUGGESTION"),
                                        !.trace = Enter(@, FAILED),
                                        !.result = ex[p].e]]
             ELSE /\ auditLog' = auditLog
                  /\ ex' = [ex EXCEPT ![p] =
                              [@ EXCEPT !.pc = "save_open",
                                        !.suggests = @ + 1,
                                        !.resp_kind = ResponseKind(resp),
                                        !.new_locator = new_locator,
                                        !.cache = Put(@, ex[p].locator,
                                                      new_locator)]]
    /\ UNCHANGED <<cacheFile, executors, nInv, healedOk, agentVars>>

\* save_cache(cache): open(CACHE_FILE, "w")
SaveOpen(p) ==
    /\ p \in executors
    /\ ex[p].pc = "save_open"
    /\ cacheFile' = open_w(cacheFile)
    /\ ex' = [ex EXCEPT ![p] = [@ EXCEPT !.pc = "save_dump",
                                         !.saves = @ + 1]]
    /\ UNCHANGED <<auditLog, executors, nInv, healedOk, agentVars>>

\* save_cache(cache): json.dump and close
SaveDump(p) ==
    /\ p \in executors
    /\ ex[p].pc = "save_dump"
    /\ cacheFile' = json_dump(ex[p].cache)
    /\ ex' = [ex EXCEPT ![p] = [@ EXCEPT !.pc = "log_healed"]]
    /\ UNCHANGED <<auditLog, executors, nInv, healedOk, agentVars>>

\* log_healing_event(locator, new_locator, ..., "HEALED_AND_RETRIED")
LogHealed(p) ==
    /\ p \in executors
    /\ ex[p].pc = "log_healed"
    /\ auditLog' = log_healing_event(auditLog, ex[p].locator, ex[p].new_locator,
                                     ex[p].action, "HEALED_AND_RETRIED")
    /\ ex' = [ex EXCEPT ![p] =
                [@ EXCEPT !.pc = "healed", !.heal_try = 0,
                          !.logged = Append(@, "HEALED_AND_RETRIED")]]
    /\ UNCHANGED <<cacheFile, executors, nInv, healedOk, agentVars>>

\* one pass of the healed-retry loop: action_func(new_locator, ...)
HealedAttempt(p) ==
    /\ p \in executors
    /\ ex[p].pc = "healed"
    /\ HealLoopGuard(ex[p].heal_try)
    /\ \E o \in Outcomes :
         /\ ex' = [ex EXCEPT ![p] =
                  [@ EXCEPT !.calls = Append(@, ex[p].new_locator),
                            !.trace = IF IsPlaywrightError(o) THEN Enter(@, RUNNING_RETRY)
                                      ELSE Append(Enter(@, RUNNING_RETRY),
                                                  IF o = "ok" THEN SUCCEEDED ELSE FAILED),
                            !.heal_try = IF IsPlaywrightError(o) THEN NextHealTry(@) ELSE @,
                            !.pc = IF IsPlaywrightError(o) THEN "healed" ELSE "done",
                            !.result = IF o = "ok" THEN "returned"
                                       ELSE IF IsPlaywrightError(o) THEN @
                                       ELSE o]]
         /\ healedOk' = IF o = "ok" THEN healedOk \cup {ex[p].locator}
                        ELSE healedOk
    /\ UNCHANGED <<cacheFile, auditLog, executors, nInv, agentVars>>

\* healed retries used up: log HEAL_FAILED_AFTER_RETRIES and re-raise
HealExhausted(p) ==
    /\ p \in executors
    /\ ex[p].pc = "healed"
    /\ ~HealLoopGuard(ex[p].heal_try)
    /\ auditLog' = log_healing_event(auditLog, ex[p].locator, ex[p].new_locator,
                                     ex[p].action, "HEAL_FAILED_AFTER_RETRIES")
    /\ ex' = [ex EXCEPT ![p] =
                [@ EXCEPT !.pc = "done",
                          !.logged = Append(@, "HEAL_FAILED_AFTER_RETRIES"),
                          !.trace = Enter(@, FAILED),
                          !.result = ex[p].e]]
    /\ UNCHANGED <<cacheFile, executors, nInv, healedOk, agentVars>>

-----------------------------------------------------------------------------
\* fallback_locator_list(page, locator_str, model)

\* Selectors are sequences of tokens: a tag, a class qualifier, a :has(...)
\* pseudo selector or a blank.
HasTokens == {":has(a)", ":has(.a)"}
ClassTokens == {".x", ".y", ".productinfo", ".product-information",
                ".product", ".item"}

\* re.sub(r":has\([^\)]*\)", "", locator_str)
remove_has(s) == SelectSeq(s, LAMBDA t : t \notin HasTokens)

\* re.sub(r"\s{2,}", " ", s)
RECURSIVE collapse(_)
collapse(s) ==
    IF Len(s) < 2 THEN s
    ELSE IF s[1] = SP /\ s[2] = SP THEN collapse(Tail(s))
    ELSE <<s[1]>> \o collapse(Tail(s))

\* re.sub(r"\.[A-Za-z0-9_-]+", "", s): class qualifiers go, also inside :has()
RECURSIVE remove_classes(_)
remove_classes(s) ==
    IF s = <<>> THEN <<>>
    ELSE IF Head(s) \in ClassTokens THEN remove_classes(Tail(s))
    ELSE IF Head(s) = ":has(.a)" THEN <<":has()">> \o remove_classes(Tail(s))
    ELSE <<Head(s)>> \o remove_classes(Tail(s))

\* Strategy 1: cleaned
Cleaned(locator_str) == strip(collapse(remove_has(locator_str)))

\* Strategy 2: simplified, from (cleaned or locator_str)
Simplified(locator_str) ==
    LET cleaned == Cleaned(locator_str)
        base == IF cleaned # <<>> THEN cleaned ELSE locator_str
    IN  strip(collapse(remove_classes(base)))

\* Strategy 3: common_patterns
common_patterns ==
    << <<"div", ".productinfo", SP, "p">>,
       <<"div", ".product-information", SP, "p">>,
       <<"div", ".product", SP, "p">>,
       <<"div", ".item", SP, "p">>,
       <<"p">> >>

\* The locator strings the generated steps pass
FbLocators ==
    { <<"div", ".x", SP, "p">>,
      <<"div", SP, "p">>,
      <<"div", ":has(a)", SP, "p">>,
      <<"ul", SP, ":has(a)", SP, "li", ".y">>,
      <<":has(.a)">>,
      <<".x">> }

\* page.locator(sel).all_text_contents(): raises, or returns a list of texts
QueryResults ==
    { [raises |-> TRUE, items |-> <<>>],
      [raises |-> FALSE, items |-> <<>>],
      [raises |-> FALSE, items |-> <<"t1", "t2", "t3">>] }

\* a strategy that goes on after a non-empty result
HasItems_Never(items) == FALSE

\* if items:
HasItems(items) == items # <<>>

\* only the exact-locator query guarded by try/except
Catches_ExactOnly(strategy) == strategy = 0

\* every strategy runs its query inside try/except Exception
Catches(strategy) == strategy \in 0..4

FbFrame ==
    [pc |-> "idle", locator_str |-> <<>>, model |-> FALSE, pat |-> 1,
     queries |-> <<>>, suggests |-> 0, raised |-> FALSE, result |-> <<>>]

\* One query of a strategy: the frame after page.locator(sel).all_text_contents()
FbQuery(f, strategy, sel, r, next) ==
    LET f1 == [f EXCEPT !.queries = Append(@, [strategy |-> strategy,
                                               sel |-> sel,
                                               raises |-> r.raises,
                                               items |-> r.items])]
    IN  IF r.raises
        THEN IF Catches(strategy)
             THEN [f1 EXCEPT !.pc = next]
             ELSE [f1 EXCEPT !.pc = "done", !.raised = TRUE]
        ELSE IF HasItems(r.items)
        THEN [f1 EXCEPT !.pc = "done", !.result = r.items]
        ELSE [f1 EXCEPT !.pc = next]

\* fallback_locator_list is called
FbCall ==
    /\ fb.pc \in {"idle", "done"}
    /\ \E l \in FbLocators, m \in BOOLEAN :
         fb' = [FbFrame EXCEPT !.pc = "exact", !.locator_str = l, !.model = m]
    /\ UNCHANGED <<healVars, nz, ag>>

\* the exact locator
FbExact ==
    /\ fb.pc = "exact"
    /\ \E r \in QueryResults :
         fb' = FbQuery(fb, 0, fb.locator_str, r, "cleaned")
    /\ UNCHANGED <<healVars, nz, ag>>

\* Strategy 1: the locator without :has(...)
FbCleaned ==
    /\ fb.pc = "cleaned"
    /\ LET cleaned == Cleaned(fb.locator_str)
       IN  IF cleaned # <<>> /\ cleaned # fb.locator_str
           THEN \E r \in QueryResults :
                   fb' = FbQuery(fb, 1, cleaned, r, "simplified")
           ELSE fb' = [fb EXCEPT !.pc = "simplified"]
    /\ UNCHANGED <<healVars, nz, ag>>

\* Strategy 2: the locator without class qualifiers
FbSimplified ==
    /\ fb.pc = "simplified"
    /\ LET simplified == Simplified(fb.locator_str)
       IN  IF simplified # <<>> /\ simplified # fb.locator_str
           THEN \E r \in QueryResults :
                   fb' = FbQuery(fb, 2, simplified, r, "patterns")
           ELSE fb' = [fb EXCEPT !.pc = "patterns"]
    /\ UNCHANGED <<healVars, nz, ag>>

\* Strategy 3: one pass of the loop over common_patterns
FbPattern ==
    /\ fb.pc = "patterns"
    /\ fb.pat <= Len(common_patterns)
    /\ \E r \in QueryResults :
         LET f == FbQuery(fb, 3, common_patterns[fb.pat], r, "patterns")
         IN  fb' = IF f.pc = "patterns"
                   THEN [f EXCEPT !.pat = @ + 1,
                                  !.pc = IF fb.pat = Len(common_patterns)
                                         THEN "llm" ELSE "patterns"]
                   ELSE f
    /\ UNCHANGED <<healVars, nz, ag>>

\* Strategy 4: heal_locator on the page HTML, then one query; return []
FbLLM ==
    /\ fb.pc = "llm"
    /\ \/ /\ ~fb.model
          /\ fb' = [fb EXCEPT !.pc = "done", !.result = <<>>]
       \/ /\ fb.model
          /\ \E contentRaises \in BOOLEAN, resp \in Responses, r \in QueryResults :
               LET suggested == heal_locator(resp)
                   f == [fb EXCEPT !.suggests = @ + 1]
                   q == FbQuery(f, 4, <<suggested>>, r, "done")
               IN  fb' = IF contentRaises
                         THEN [fb EXCEPT !.pc = "done", !.result = <<>>]
                         ELSE IF suggested = None
                         THEN [f EXCEPT !.pc = "done", !.result = <<>>]
                         ELSE q
    /\ UNCHANGED <<healVars, nz, ag>>

-----------------------------------------------------------------------------
\* The normaliser of generated code (ai_agent.py, lines 19-136).  A piece of
\* generated code is one statement, kept as a record of the parts the regular
\* expressions of the normaliser look at:
\*   expect       [x = ][await ]expect(<target>).<name>(<args>)
\*   page_assert  [x = ][await ]page.<name>(<args>)
\*   heal         [await ]try_with_healing(<shape>)
\*   import       [await ]import os
\*   count_assert [x = ]assert <target>.count() > 0
\*   empty        the empty text
Blank == ""

Hyphen == "-"

ALLOWED_ASSERTIONS ==
    {"to_be_visible", "to_have_count", "to_have_text", "to_contain_text",
     "to_have_url", "to_have_title", "to_be_hidden"}

AssertionNames ==
    ALLOWED_ASSERTIONS \cup
    {"to_exist", "to_be_non_empty", "to_have_count_greater_than",
     "to_have_more_than", "to_be_enabled", "to_have_attribute"}

Digits == {"0", "1", "3"}

\* 'placeholder', 'v' as the model writes it, and as line 69 rewrites it: the
\* replacement template keeps the backslash before each double quote
Placeholder == "'placeholder', 'v'"

PlaceholderEscaped == "\\\"placeholder\\\", \\\"v\\\""

Lambda == "lambda n: n > 0"

Selector == "'sel'"

InputArgs == {Blank, "0", "3", Selector, Placeholder, Lambda}

VarTarget == "loc"

LocatorTarget == "page.locator('x')"

\* repr of the quoted selector, line 117 and 119
ReprTarget == "page.locator(\"'sel'\")"

HealShapes == {"model, page, page.click, 'sel'", "page, page.click, 'sel'", "page.click, 'sel'"}

Canonical == "model, page, page.click, 'sel'"

Stmt(form, async, assign, target, name, args) ==
    [form |-> form, async |-> async, assign |-> assign, target |-> target,
     name |-> name, args |-> args]

Statements ==
    {Stmt("expect", a, g, t, n, x) :
        a \in BOOLEAN, g \in BOOLEAN, t \in {VarTarget, LocatorTarget},
        n \in AssertionNames, x \in InputArgs}
    \cup {Stmt("page_assert", a, g, Hyphen, n, x) :
        a \in BOOLEAN, g \in BOOLEAN, n \in AssertionNames, x \in {Blank, Selector}}
    \cup {Stmt("heal", a, FALSE, Hyphen, Hyphen, x) : a \in BOOLEAN, x \in HealShapes}
    \cup {Stmt("import", a, FALSE, Hyphen, Hyphen, Hyphen) : a \in BOOLEAN}

\* the statement has a '.to_*(' method call
HasAssertion(code) == code.form \in {"expect", "page_assert"}

remove_async_tokens(code) == [code EXCEPT !.async = FALSE]

fix_try_with_healing_signature(code) ==
    IF code.form = "heal" /\ code.args \in {"page, page.click, 'sel'", "page.click, 'sel'"}
    THEN [code EXCEPT !.args = Canonical]
    ELSE code

\* max(1, int(d)) on the digits of the model
AtLeastOne(d) == IF d = "0" THEN "1" ELSE d

ASSERTION_REPLACEMENTS(code) ==
    IF ~HasAssertion(code) THEN code
    ELSE IF code.name \in {"to_have_count_greater_than", "to_have_more_than"}
            /\ code.args \in Digits
    THEN [code EXCEPT !.name = "to_have_count", !.args = AtLeastOne(@)]
    ELSE IF code.name = "to_be_non_empty" /\ code.args = Blank
    THEN [code EXCEPT !.name = "to_have_count", !.args = "1"]
    ELSE IF code.name = "to_exist" /\ code.args = Blank
    THEN [code EXCEPT !.name = "to_be_visible"]
    ELSE code

\* every name of the model starts with to_
check_unknown(name) == IF name \notin ALLOWED_ASSERTIONS THEN "to_be_visible" ELSE name

\* line 62
RenameUnknown(code) ==
    IF HasAssertion(code) THEN [code EXCEPT !.name = check_unknown(@)] ELSE code

\* lines 63-66
DropVisibleArgs(code) ==
    IF /\ code.form = "expect"
       /\ code.target \in {LocatorTarget, ReprTarget}
       /\ code.name = "to_be_visible"
       /\ code.args # Blank
    THEN [code EXCEPT !.args = Blank]
    ELSE code

\* lines 67-70
PlaceholderToAttribute(code) ==
    IF HasAssertion(code) /\ code.name = "to_be_visible" /\ code.args = Placeholder
    THEN [code EXCEPT !.name = "to_have_attribute", !.args = PlaceholderEscaped]
    ELSE code

\* lines 71-74
LambdaCountToAssert(code) ==
    IF code.form = "expect" /\ code.name = "to_have_count" /\ code.args = Lambda
    THEN [code EXCEPT !.form = "count_assert", !.name = Hyphen, !.args = Hyphen]
    ELSE code

sanitize_assertions(code) ==
    LambdaCountToAssert(PlaceholderToAttribute(DropVisibleArgs(
        RenameUnknown(ASSERTION_REPLACEMENTS(code)))))

\* lines 114-123
PageAssertToExpect(code) ==
    IF /\ code.form = "page_assert"
       /\ code.name \in {"to_be_visible", "to_have_count", "to_have_text"}
       /\ code.args = Selector
    THEN IF code.name = "to_be_visible"
         THEN [code EXCEPT !.form = "expect", !.target = ReprTarget, !.args = Blank]
         ELSE [code EXCEPT !.form = "expect", !.target = ReprTarget,
                           !.name = "to_have_count", !.args = "1"]
    ELSE code

\* lines 126-131: the argument of expect may hold no closing parenthesis
RemoveAssignment(code) ==
    IF code.assign /\ code.form = "expect" /\ code.target = VarTarget
    THEN [code EXCEPT !.assign = FALSE]
    ELSE code

\* line 134
RemoveImports(code) ==
    IF code.form = "import" /\ ~code.async THEN [code EXCEPT !.form = "empty"] ELSE code

validate_final_code(code) ==
    RemoveImports(RemoveAssignment(PageAssertToExpect(
        sanitize_assertions(fix_try_with_healing_signature(remove_async_tokens(code))))))

NzFrame == [pc |-> "idle", code |-> Stmt("empty", FALSE, FALSE, Hyphen, Hyphen, Hyphen),
            once |-> Stmt("empty", FALSE, FALSE, Hyphen, Hyphen, Hyphen)]

\* a text arrives from the generation source
NzInput ==
    /\ nz.pc = "idle"
    /\ \E code \in Statements : nz' = [pc |-> "raw", code |-> code, once |-> code]
    /\ UNCHANGED <<healVars, fb, ag>>

\* _translate_to_playwright, line 292
NzNormalize ==
    /\ nz.pc = "raw"
    /\ nz' = [nz EXCEPT !.pc = "once", !.code = validate_final_code(@),
                        !.once = validate_final_code(nz.code)]
    /\ UNCHANGED <<healVars, fb, ag>>

\* run, line 362
NzRenormalize ==
    /\ nz.pc = "once"
    /\ nz' = [nz EXCEPT !.pc = "twice", !.code = validate_final_code(@)]
    /\ UNCHANGED <<healVars, fb, ag>>

-----------------------------------------------------------------------------
\* AIAgent (ai_agent.py, lines 221-502)
\* a file: missing, or its lines below def run(page, model)
Absent == [exists |-> FALSE, content |-> <<>>]

File(content) == [exists |-> TRUE, content |-> content]

\* line 289
FallbackProgram ==
    Stmt("heal", FALSE, FALSE, Hyphen, Hyphen, "model, page, page.goto, \"BASE_URL\"")

\* line 422
FallbackBody ==
    Stmt("heal", FALSE, FALSE, Hyphen, Hyphen,
         "model, page, page.goto, os.environ.get(\"BASE_URL\", \"https://example.com\")")

\* a text of the model that is not one of the statements above
Generated(code) == Stmt("text", FALSE, FALSE, Hyphen, Hyphen, Join(code))

\* lines 281-286 and 414-419: the text the program is made from
CodeOf(resp) ==
    LET attr == IF resp.hasText THEN resp.text ELSE <<>>
        raw == IF resp.raises THEN <<>>
               ELSE IF attr # <<>> THEN attr ELSE resp.str
    IN  strip(replace_fence(strip(raw)))

translate_to_playwright(resp) ==
    LET code == CodeOf(resp)
    IN  fix_try_with_healing_signature(validate_final_code(
            IF code = <<>> THEN FallbackProgram ELSE Generated(code)))

\* re.sub(r"[^A-Za-z0-9_]", "_", test_name)
Alnum == {"a", "b", "_"}

safe_name(test_name) ==
    [k \in 1..Len(test_name) |-> IF test_name[k] \in Alnum THEN test_name[k] ELSE "_"]

TestNames == { <<"a">>, <<"a", "-", "b">>, <<"a", "_", "b">> }

SafeNames == {safe_name(t) : t \in TestNames}

\* os.path.exists(file_path) never true
Exists_Never(files, name) == FALSE

\* os.path.exists(file_path)
Exists(files, name) == files[name] # Absent

\* what exec of a step can do: return, or raise some exception
StepOutcomes == {"ok", "PlaywrightError", "AssertionError", "SyntaxError"}

\* a failed step swallowed
Propagates_Swallowed(outcome) == FALSE

\* lines 327-335 and 341-342: every exception of a step is re-raised
Propagates(outcome) == outcome # "ok"

NoResponse == [raises |-> FALSE, hasText |-> FALSE, text |-> <<>>, str |-> <<>>]

EmptyStmt == Stmt("empty", FALSE, FALSE, Hyphen, Hyphen, Hyphen)

\* Lines of a generated body (lines 435-497)
CondBegin == "# conditional statement begins"
CondEnd == "# conditional statement ends"
LoopBegin == "# loop begins"
LoopEnd == "# loop ends"
IfLine == "if x:"
ForLine == "for i in y:"

\* raw.lstrip() on the lines of the model
LineLstrip(raw) ==
    IF raw = "    b" THEN "b" ELSE IF raw = "   " THEN "" ELSE raw

\* the bodies the generation source returns, as code_body.splitlines()
Bodies ==
    { <<"a", "b">>,
      <<"a", "", "    b", "   ", "c">>,
      <<"a", "b", "a">>,
      <<"a", CondBegin, IfLine, "b", CondEnd, "c", "d">>,
      <<"a", LoopBegin, ForLine, "b", LoopEnd, "c">>,
      <<LoopBegin, ForLine, "b", LoopEnd>>,
      <<"a", LoopBegin, ForLine, "b">>,
      <<CondBegin, IfLine, "b", CondEnd, LoopBegin, ForLine, "c", LoopEnd, "d", "e">> }

\* lines 436-465: the stripped non-blank lines
clean_lines(body) ==
    SelectSeq([k \in DOMAIN body |-> LineLstrip(body[k])], LAMBDA l : l # "")

\* list.index(x): the first position of x, 0 when x is not in the list
\* (ValueError)
IndexOf(lines, x) ==
    IF \E k \in DOMAIN lines : lines[k] = x
    THEN CHOOSE k \in DOMAIN lines :
            lines[k] = x /\ \A j \in 1..(k - 1) : lines[j] # x
    ELSE 0

\* list.remove(x)
Remove(lines, x) ==
    LET k == IndexOf(lines, x)
    IN  IF k = 0 THEN lines
        ELSE SubSeq(lines, 1, k - 1) \o SubSeq(lines, k + 1, Len(lines))

RECURSIVE RemoveEach(_, _)
RemoveEach(lines, block) ==
    IF block = <<>> THEN lines
    ELSE RemoveEach(Remove(lines, Head(block)), Tail(block))

\* lines 476-481 and 490-493: the indentation of a line of a block
BlockIndent(line, begin) ==
    IF line \in {CondBegin, CondEnd, LoopBegin, LoopEnd}
       \/ (begin = CondBegin /\ line = IfLine)
       \/ (begin = LoopBegin /\ line = ForLine)
    THEN 4 ELSE 8

\* lines 469-497: for line in clean_lines, with clean_lines.remove(line_)
\* inside the loop; i is the position of the iterator in the list as it is
\* now
RECURSIVE ApplyIndentation(_, _, _)
ApplyIndentation(lines, i, out) ==
    IF i > Len(lines) THEN [raised |-> FALSE, content |-> out]
    ELSE LET line == lines[i]
         IN  IF line \in {CondBegin, LoopBegin}
             THEN LET start == IndexOf(lines, line)
                      end == IndexOf(lines, IF line = CondBegin THEN CondEnd ELSE LoopEnd)
                      block == SubSeq(lines, start, end)
                  IN  IF end = 0 THEN [raised |-> TRUE, content |-> out]
                      ELSE ApplyIndentation(
                              RemoveEach(lines, block), i + 1,
                              out \o [k \in DOMAIN block |->
                                        [indent |-> BlockIndent(block[k], line),
                                         text |-> block[k]]])
             ELSE ApplyIndentation(lines, i + 1,
                                   Append(out, [indent |-> 4, text |-> line]))

AgFrame ==
    [pc |-> "idle", op |-> "none", ncalls |-> 0,
     steps |-> 0, i |-> 0, resp |-> NoResponse, asked |-> FALSE, code |-> EmptyStmt,
     events |-> <<>>, raised |-> FALSE,
     files |-> [n \in SafeNames |-> Absent], file_path |-> <<>>,
     model_calls |-> 0, ret |-> [file_path |-> <<>>, created |-> FALSE],
     existed |-> FALSE, before |-> [n \in SafeNames |-> Absent], calls_before |-> 0,
     body |-> <<>>]

\* run, lines 344-347: the steps of the task
AgRun ==
    /\ ag.pc \in {"idle", "done"}
    /\ ag.ncalls < MaxAgentCalls
    /\ \E n \in 0..MaxSteps :
         ag' = [ag EXCEPT !.pc = IF n = 0 THEN "done" ELSE "translate",
                          !.op = "run", !.ncalls = @ + 1, !.steps = n, !.i = 1,
                          !.events = <<>>, !.raised = FALSE, !.asked = FALSE]
    /\ UNCHANGED <<healVars, fb, nz>>

\* run, lines 350-362: translate step i, and normalise once more when the
\* bulk read was replaced by the fallback wrapper
AgTranslate ==
    /\ ag.pc = "translate"
    /\ \E resp \in Responses, bulk \in BOOLEAN :
         LET code == translate_to_playwright(resp)
         IN  ag' = [ag EXCEPT !.pc = "execute", !.resp = resp, !.asked = TRUE,
                              !.model_calls = @ + 1,
                              !.code = IF bulk THEN validate_final_code(code) ELSE code,
                              !.events = Append(@, [kind |-> "translate", step |-> ag.i])]
    /\ UNCHANGED <<healVars, fb, nz>>

\* run, line 363, and _wrap_and_execute
AgExecute ==
    /\ ag.pc = "execute"
    /\ \E outcome \in StepOutcomes :
         LET ev == Append(ag.events, [kind |-> IF outcome = "ok" THEN "executed" ELSE "failed",
                                      step |-> ag.i])
         IN  ag' = IF Propagates(outcome)
                   THEN [ag EXCEPT !.pc = "done", !.raised = TRUE, !.events = ev]
                   ELSE [ag EXCEPT !.pc = IF ag.i < ag.steps THEN "translate" ELSE "done",
                                   !.i = @ + 1, !.events = ev]
    /\ UNCHANGED <<healVars, fb, nz>>

\* generate_source_if_missing, lines 376-389
AgGenerate ==
    /\ ag.pc \in {"idle", "done"}
    /\ ag.ncalls < MaxAgentCalls
    /\ \E test_name \in TestNames :
         LET file_path == safe_name(test_name)
             f == [ag EXCEPT !.op = "generate", !.ncalls = @ + 1, !.file_path = file_path,
                             !.existed = ag.files[file_path] # Absent,
                             !.before = ag.files, !.calls_before = ag.model_calls,
                             !.asked = FALSE, !.events = <<>>, !.raised = FALSE]
         IN  ag' = IF Exists(ag.files, file_path)
                   THEN [f EXCEPT !.pc = "done",
                                  !.ret = [file_path |-> file_path, created |-> FALSE]]
                   ELSE [f EXCEPT !.pc = "gen_model"]
    /\ UNCHANGED <<healVars, fb, nz>>

\* generate_source_if_missing, lines 410-426
AgGenModel ==
    /\ ag.pc = "gen_model"
    /\ \E resp \in Responses, lines \in Bodies :
         LET code_body == CodeOf(resp)
             code == fix_try_with_healing_signature(validate_final_code(
                         IF code_body = <<>> THEN FallbackBody
                         ELSE Generated(code_body)))
         IN  ag' = [ag EXCEPT !.pc = "gen_write", !.resp = resp, !.asked = TRUE,
                              !.model_calls = @ + 1,
                              !.code = code,
                              !.body = IF code_body = <<>> THEN <<code.args>> ELSE lines]
    /\ UNCHANGED <<healVars, fb, nz>>

\* generate_source_if_missing, lines 428-502: the body under def run(page, model)
AgGenWrite ==
    /\ ag.pc = "gen_write"
    /\ LET final == ApplyIndentation(clean_lines(ag.body), 1, <<>>)
       IN  ag' = IF final.raised
                 THEN [ag EXCEPT !.pc = "done", !.raised = TRUE]
                 ELSE [ag EXCEPT !.pc = "done",
                                 !.files = [@ EXCEPT ![ag.file_path] = File(final.content)],
                                 !.ret = [file_path |-> ag.file_path, created |-> TRUE]]
    /\ UNCHANGED <<healVars, fb, nz>>

-----------------------------------------------------------------------------
InitStore ==
    /\ cacheFile = [state |-> "absent", data |-> EmptyDict]
    /\ auditLog = <<>>
    /\ ex = [p \in Executors |-> Frame]
    /\ nInv = 0
    /\ healedOk = {}
    /\ fb = FbFrame
    /\ nz = NzFrame
    /\ ag = AgFrame

Init == InitStore /\ executors = {1}

InitConc == InitStore /\ executors = Executors

Next ==
    \E p \in Executors :
        \/ Call(p)
        \/ DirectCall(p)
        \/ LoadCache(p)
        \/ PrimaryAttempt(p)
        \/ LoopExit(p)
        \/ Heal(p)
        \/ SaveOpen(p)
        \/ SaveDump(p)
        \/ LogHealed(p)
        \/ HealedAttempt(p)
        \/ HealExhausted(p)

NextFallback ==
    \/ FbCall
    \/ FbExact
    \/ FbCleaned
    \/ FbSimplified
    \/ FbPattern
    \/ FbLLM

InitFallback == InitStore /\ executors = {}

SpecFallback == InitFallback /\ [][NextFallback]_vars

NextNormalize == NzInput \/ NzNormalize \/ NzRenormalize

SpecNormalize == InitFallback /\ [][NextNormalize]_vars

NextAgent ==
    \/ AgRun \/ AgTranslate \/ AgExecute
    \/ AgGenerate \/ AgGenModel \/ AgGenWrite

SpecAgent == InitFallback /\ [][NextAgent]_vars

Spec == Init /\ [][Next]_vars

SpecConc == InitConc /\ [][Next]_vars

-----------------------------------------------------------------------------
\* Observations used by the properties
Done(p) == ex[p].pc = "done"

\* the cache held a mapping for the locator of the call when it was loaded
Hit(p) == ex[p].path = "locator" /\ ex[p].first \in DOMAIN ex[p].loaded

Cached(p) == ex[p].loaded[ex[p].first]

Range(s) == {s[i] : i \in DOMAIN s}

LastEntry == auditLog[Len(auditLog)]

Entry(p, new, status) ==
    [old |-> ex[p].locator, new |-> new, action |-> ex[p].action,
     status |-> status]

\* the suggestion obtained by the call was none, or the failing locator
Rejected(p) ==
    /\ ex[p].suggests > 0
    /\ (ex[p].new_locator = None \/ ex[p].new_locator = ex[p].locator)

\* the healed retries of the call were used up
Exhausted(p) ==
    /\ Done(p)
    /\ ex[p].saves > 0
    /\ ex[p].heal_try >= MAX_HEAL_RETRIES

-----------------------------------------------------------------------------
\* C1: for retries >= 0, one try_with_healing invocation calls the action at
\* most 1 + retries + MAX_HEAL_RETRIES times.
C1_RetryBound ==
    \A p \in executors :
        ex[p].retries >= 0
            => Len(ex[p].calls) <= 1 + ex[p].retries + MAX_HEAL_RETRIES

\* an invocation with retries = 0 that made 1 + MAX_HEAL_RETRIES calls
C1_Witness ==
    \E p \in executors :
        /\ Done(p)
        /\ ex[p].retries = 0
        /\ Len(ex[p].calls) = 1 + MAX_HEAL_RETRIES

\* C2: after a re-heal of L (the cache maps L to H, the attempt with H fails
\* and the suggestion source returns H2) the cache maps L to H2.
C2_ReHealOverwrites ==
    \A p \in executors :
        (Hit(p) /\ ex[p].pc \in {"log_healed", "healed", "done"}
                /\ ex[p].saves > 0)
            => /\ cacheFile.state = "json"
               /\ ex[p].first \in DOMAIN cacheFile.data
               /\ cacheFile.data[ex[p].first] = ex[p].new_locator

\* C3: when two executors run concurrently and each heals a different
\* locator, the store holds both mappings after both have finished.
C3_NoLostUpdate ==
    (/\ executors = Executors
     /\ \A p \in Executors : Done(p) /\ ex[p].saves > 0
     /\ ex[1].locator # ex[2].locator)
        => /\ cacheFile.state = "json"
           /\ \A p \in Executors :
                /\ ex[p].locator \in DOMAIN cacheFile.data
                /\ cacheFile.data[ex[p].locator] = ex[p].new_locator

\* C4: healing is entered only when the action raises a locator-resolution
\* error; every other error kind propagates immediately with no
\* suggestion-source call, no cache write and no audit-log entry.
C4_OnlyLocatorErrorsHeal ==
    \A p \in executors :
        (ex[p].path = "locator"
         /\ ex[p].primary \notin {"none", "ok", "ElementNotResolvable"})
            => /\ Done(p)
               /\ ex[p].result = ex[p].primary
               /\ ex[p].suggests = 0
               /\ ex[p].saves = 0
               /\ ex[p].logged = <<>>

\* C5 as stated: with L -> H in the cache at the start, the first attempt
\* uses H and no attempt of the invocation uses L.
C5_NeverUsesOriginal ==
    \A p \in executors :
        Hit(p) =>
            \A i \in DOMAIN ex[p].calls :
                /\ (i = 1 => ex[p].calls[i] = Cached(p))
                /\ ex[p].calls[i] # ex[p].first

\* C5 (amended): with L -> H in the cache at the start, the first attempt
\* uses H and every later attempt uses the replacement the suggestion source
\* returned for H, which differs from H.
C5_StartsFromCached ==
    \A p \in executors :
        Hit(p) =>
            \A i \in DOMAIN ex[p].calls :
                /\ (i = 1 => ex[p].calls[i] = Cached(p))
                /\ (i > 1 => /\ ex[p].calls[i] = ex[p].new_locator
                             /\ ex[p].suggests = 1
                             /\ ex[p].new_locator # Cached(p))

\* an invocation that found L -> H, H having been recorded as
\* HEAL_FAILED_AFTER_RETRIES by an earlier invocation, and attempted H
C5_Witness ==
    \E p \in executors :
        /\ Hit(p)
        /\ ex[p].calls # <<>>
        /\ \E i \in 1..(Len(auditLog) - Len(ex[p].logged)) :
              /\ auditLog[i].status = "HEAL_FAILED_AFTER_RETRIES"
              /\ auditLog[i].old = ex[p].first
              /\ auditLog[i].new = Cached(p)

\* C6 as stated: after a successful heal of L, a later invocation with L
\* makes no call to the suggestion source.
C6_NoSuggestionWhenCached ==
    \A p \in executors :
        (Hit(p) /\ ex[p].first \in healedOk) => ex[p].suggests = 0

\* C6 (amended): after a successful heal of L, a later invocation with L
\* calls the suggestion source only after its first attempt, made with the
\* cached locator, has raised a PlaywrightError, and then once.
C6_SuggestionOnlyAfterCachedFails ==
    \A p \in executors :
        (Hit(p) /\ ex[p].first \in healedOk) =>
            /\ ex[p].suggests <= 1
            /\ ex[p].suggests = 1 =>
                  /\ Len(ex[p].calls) >= 1
                  /\ ex[p].calls[1] = Cached(p)
                  /\ ex[p].primary \in {"ElementNotResolvable", "NetworkError"}

\* a later invocation with a healed locator that succeeded with the cached
\* locator and made no suggestion call
C6_Witness ==
    \E p \in executors :
        /\ Hit(p)
        /\ ex[p].first \in healedOk
        /\ Done(p)
        /\ ex[p].calls = <<Cached(p)>>
        /\ ex[p].result = "returned"
        /\ ex[p].suggests = 0

C8_MappingKeptOnFailure ==
    \A p \in executors :
        Exhausted(p) =>
            /\ ex[p].result = ex[p].primary
            /\ ex[p].result # "returned"
            /\ Len(ex[p].calls) = 1 + MAX_HEAL_RETRIES
            /\ ex[p].logged = <<"HEALED_AND_RETRIED", "HEAL_FAILED_AFTER_RETRIES">>
            /\ auditLog # <<>>
            /\ LastEntry = Entry(p, ex[p].new_locator, "HEAL_FAILED_AFTER_RETRIES")
            /\ cacheFile.state = "json"
            /\ ex[p].locator \in DOMAIN cacheFile.data
            /\ cacheFile.data[ex[p].locator] = ex[p].new_locator

\* an invocation whose healed retries were used up
C8_Witness ==
    \E p \in executors :
        /\ Exhausted(p)
        /\ ex[p].result \in {"ElementNotResolvable", "NetworkError"}

\* C9: whenever the suggestion source raises or returns an empty response,
\* heal_locator returns None.
C9_NoneOnEmptyResponse ==
    \A p \in executors :
        ex[p].resp_kind \in {"raises", "empty"} => ex[p].new_locator = None

\* C10: using a cached mapping, obtaining a replacement, obtaining none and
\* failing after the healed retries each append an audit-log entry with the
\* status CACHE_USED, HEALED_AND_RETRIED, FAILED_NO_SUGGESTION and
\* HEAL_FAILED_AFTER_RETRIES.
C10_EveryTransitionLogged ==
    \A p \in executors :
        /\ (Hit(p) /\ ex[p].pc # "load")
              => "CACHE_USED" \in Range(ex[p].logged)
        /\ (ex[p].saves > 0 /\ ex[p].pc \in {"healed", "done"})
              => "HEALED_AND_RETRIED" \in Range(ex[p].logged)
        /\ Rejected(p) => "FAILED_NO_SUGGESTION" \in Range(ex[p].logged)
        /\ Exhausted(p) => "HEAL_FAILED_AFTER_RETRIES" \in Range(ex[p].logged)

-----------------------------------------------------------------------------
\* Observations of a fallback_locator_list call
FbDone == fb.pc = "done"

FbFound == \E i \in DOMAIN fb.queries : fb.queries[i].items # <<>>

FbOf(strategy) == {i \in DOMAIN fb.queries : fb.queries[i].strategy = strategy}

\* C11: fallback_locator_list never raises, whatever the page queries and the
\* suggestion source do, and returns an empty list when no strategy matched
\* an element.
C11_FallbackNeverRaises ==
    /\ ~fb.raised
    /\ (FbDone /\ ~FbFound) => fb.result = <<>>

\* a call in which queries of the first strategies and of the patterns
\* raised, the suggestion source was asked, and the empty list came back
C11_Witness ==
    /\ FbDone
    /\ fb.result = <<>>
    /\ fb.suggests = 1
    /\ \A st \in {0, 1, 3} : \E i \in FbOf(st) : fb.queries[i].raises

\* C12: the strategies are tried in the fixed order exact, :has-stripped,
\* class-stripped, structural guesses, suggested locator; the result of the
\* first non-empty query is returned and nothing is queried after it.
C12_FirstNonEmptyInOrder ==
    LET q == fb.queries
        n == Len(q)
    IN  /\ \A i, j \in 1..n :
              i < j => /\ q[i].strategy <= q[j].strategy
                       /\ q[i].strategy = q[j].strategy => q[i].strategy = 3
        /\ \A i \in 1..n :
              /\ q[i].strategy = 0 => q[i].sel = fb.locator_str
              /\ q[i].strategy = 1 => q[i].sel = Cleaned(fb.locator_str)
              /\ q[i].strategy = 2 => q[i].sel = Simplified(fb.locator_str)
              /\ q[i].strategy = 3 =>
                    q[i].sel = common_patterns[Cardinality({k \in FbOf(3) : k <= i})]
              /\ i < n => q[i].items = <<>>
        /\ (n > 0 /\ q[n].items # <<>>) => (FbDone /\ fb.result = q[n].items)
        /\ (FbDone /\ ~FbFound) =>
              /\ fb.result = <<>>
              /\ Cardinality(FbOf(0)) = 1
              /\ Cardinality(FbOf(3)) = Len(common_patterns)

\* 'div.x p' yields nothing, 'div p' yields 3 texts: those are returned and
\* no structural guess is queried
C12_Witness ==
    /\ FbDone
    /\ fb.locator_str = <<"div", ".x", SP, "p">>
    /\ Len(fb.queries) = 2
    /\ fb.queries[1].items = <<>> /\ ~fb.queries[1].raises
    /\ fb.queries[2].sel = <<"div", SP, "p">>
    /\ fb.result = <<"t1", "t2", "t3">>
    /\ FbOf(3) = {}

\* C13: normalisation is idempotent: normalising an already normalised text
\* changes nothing.
C13_Idempotent == nz.pc = "twice" => nz.code = nz.once

\* C14: the normalised text has no assertion call whose name is outside the
\* allow-list.
C14_OnlyAllowedAssertions ==
    (nz.pc \in {"once", "twice"} /\ HasAssertion(nz.code)) => nz.code.name \in ALLOWED_ASSERTIONS

\* C15: when the generation source raises or returns an empty response, the
\* translated step (and the generated source body) is the safe fallback
\* program, a single navigation to the base URL.
C15_FallbackOnEmptyResponse ==
    (ag.asked /\ ResponseKind(ag.resp) \in {"raises", "empty"}) =>
        \/ ag.op = "run" /\ ag.code = FallbackProgram
        \/ ag.op = "generate" /\ ag.code = FallbackBody

\* C16: when the source file of a test name exists, generate_source_if_missing
\* returns it with created = False, does not call the model and leaves the
\* files as they were; the model is called only when the file was missing.
C16_ExistingSourceKept ==
    ag.op = "generate" =>
        /\ ag.existed =>
              /\ ag.pc = "done"
              /\ ag.ret = [file_path |-> ag.file_path, created |-> FALSE]
              /\ ag.files = ag.before
              /\ ag.model_calls = ag.calls_before
        /\ ag.model_calls > ag.calls_before => ~ag.existed

\* a second call finds the file the first call wrote, under another test name
\* with the same safe name
C16_Witness ==
    /\ ag.op = "generate" /\ ag.pc = "done" /\ ag.existed
    /\ ag.ncalls = 2
    /\ ag.model_calls = 1
    /\ ag.file_path = <<"a", "_", "b">>
    /\ ag.files[ag.file_path] # Absent

\* C17: run translates and executes the steps one after the other in their
\* order, and after a step that failed no later step is translated or executed.
C17_StepsInOrderHaltOnFailure ==
    ag.op = "run" =>
        LET ev == ag.events
            n == Len(ev)
        IN  /\ n <= 2 * ag.steps
            /\ \A k \in 1..n :
                  /\ ev[k].step = (k + 1) \div 2
                  /\ IF k % 2 = 1 THEN ev[k].kind = "translate"
                                  ELSE ev[k].kind \in {"executed", "failed"}
                  /\ k < n => ev[k].kind # "failed"
            /\ (n > 0 /\ ev[n].kind = "failed") => (ag.pc = "done" /\ ag.raised)
            /\ (ag.pc = "done" /\ ~ag.raised) => n = 2 * ag.steps

\* the first of two steps fails: the second is never translated
C17_Witness ==
    /\ ag.op = "run" /\ ag.pc = "done" /\ ag.raised
    /\ ag.steps = 2
    /\ ag.events = << [kind |-> "translate", step |-> 1], [kind |-> "failed", step |-> 1] >>

-----------------------------------------------------------------------------
\* the invocation of executor p is between its entry checks and its end
Running(p) == p \in executors /\ ex[p].pc \notin {"idle", "done"}

\* one step of the running invocation of p
StepOf(p) ==
    \/ DirectCall(p) \/ LoadCache(p) \/ PrimaryAttempt(p) \/ LoopExit(p)
    \/ Heal(p) \/ SaveOpen(p) \/ SaveDump(p) \/ LogHealed(p)
    \/ HealedAttempt(p) \/ HealExhausted(p)

\* the number of steps an invocation in frame f can still take, at most
Measure(f) ==
    CASE f.pc \in {"idle", "done"} -> 0
      [] f.pc = "direct" -> 1
      [] f.pc = "healed" -> 1 + (MAX_HEAL_RETRIES - f.heal_try)
      [] f.pc = "log_healed" -> MAX_HEAL_RETRIES + 2
      [] f.pc = "save_dump" -> MAX_HEAL_RETRIES + 3
      [] f.pc = "save_open" -> MAX_HEAL_RETRIES + 4
      [] f.pc = "heal" -> MAX_HEAL_RETRIES + 5
      [] f.pc = "loop" -> MAX_HEAL_RETRIES + 6
      [] f.pc = "load" -> MAX_HEAL_RETRIES + 7

\* C18: every try_with_healing invocation terminates when each call of the
\* action and of the suggestion source returns or raises: a running invocation
\* can always take a step, and each of its steps strictly decreases a natural
\* number, so it ends after at most MAX_HEAL_RETRIES + 7 steps.
C18_Terminates ==
    /\ [](\A p \in Executors :
            /\ Measure(ex[p]) \in Nat
            /\ Running(p) => ENABLED StepOf(p))
    /\ [][\A p \in Executors :
            (Running(p) /\ ex'[p] # ex[p]) => Measure(ex'[p]) < Measure(ex[p])]_vars

\* an invocation that used every healed retry and ended
C18_Witness ==
    /\ Done(1)
    /\ ex[1].retries = MaxRetries
    /\ ex[1].heal_try = MAX_HEAL_RETRIES
    /\ ex[1].trace = <<PENDING, RUNNING, HEALING, RUNNING_RETRY, FAILED>>

\* the call started on an empty cache, its primary attempt failed with a
\* locator error, and the action succeeded with the suggested locator
HealedScenario(p) ==
    /\ Done(p)
    /\ ex[p].path = "locator"
    /\ ex[p].loaded = EmptyDict
    /\ IsPlaywrightError(ex[p].primary)
    /\ ex[p].suggests = 1
    /\ ex[p].new_locator \notin {None, ex[p].first}
    /\ ex[p].result = "returned"

\* C19: on an empty cache, a failed primary attempt healed by a different
\* locator goes PENDING, RUNNING, HEALING, RUNNING(retry), SUCCEEDED; the cache
\* then maps the original locator to the suggested one and the audit log has
\* gained exactly one entry, HEALED_AND_RETRIED.
C19_HealScenario ==
    \A p \in Executors :
        HealedScenario(p) =>
            /\ ex[p].trace = <<PENDING, RUNNING, HEALING, RUNNING_RETRY, SUCCEEDED>>
            /\ cacheFile = json_dump(Put(EmptyDict, ex[p].first, ex[p].new_locator))
            /\ Len(auditLog) = ex[p].log0 + 1
            /\ LastEntry = [old |-> ex[p].first, new |-> ex[p].new_locator,
                            action |-> ex[p].action, status |-> "HEALED_AND_RETRIED"]

\* the scenario in the second invocation, after one that logged an event
C19_Witness ==
    /\ HealedScenario(1)
    /\ nInv = 2
    /\ ex[1].log0 = 1
    /\ ex[1].heal_try = 1

Edges ==
    { <<PENDING, RUNNING>>, <<RUNNING, SUCCEEDED>>, <<RUNNING, HEALING>>,
      <<RUNNING, FAILED>>, <<HEALING, RUNNING_RETRY>>, <<HEALING, FAILED>>,
      <<RUNNING_RETRY, SUCCEEDED>>, <<RUNNING_RETRY, FAILED>> }

TraceEdges(p) ==
    { <<ex[p].trace[k], ex[p].trace[k + 1]>> : k \in 1..(Len(ex[p].trace) - 1) }

\* SUCCEEDED and FAILED are terminal, HEALING is entered at most once and the
\* suggestion source is called at most once
HealsOnce(p) ==
    LET t == ex[p].trace
    IN  /\ \A k \in 1..(Len(t) - 1) : t[k] \notin {SUCCEEDED, FAILED}
        /\ Cardinality({k \in DOMAIN t : t[k] = HEALING}) <= 1
        /\ ex[p].suggests <= 1
        /\ ex[p].suggests = 1 => HEALING \in Range(t)

\* C20 as stated: the states of an invocation follow only the listed edges,
\* the end states are terminal and HEALING is entered at most once.
C20_OnlyListedEdges ==
    \A p \in Executors : TraceEdges(p) \subseteq Edges /\ HealsOnce(p)

\* C20: with a callable action, and retries >= 0 on the locator path, the
\* states follow only the listed edges; otherwise the invocation goes from
\* PENDING to FAILED without a dispatch.  HEALING is entered at most once.
C20_EdgesWhenDispatched ==
    \A p \in Executors :
        /\ HealsOnce(p)
        /\ TraceEdges(p) \subseteq Edges \cup {<<PENDING, FAILED>>}
        /\ <<PENDING, FAILED>> \in TraceEdges(p) =>
              \/ ex[p].path = "invalid"
              \/ ex[p].path = "locator" /\ ex[p].retries < 0

\* an invocation with retries >= 0 that went through every state up to FAILED
C20_Witness ==
    \E p \in Executors :
         /\ Done(p)
         /\ ex[p].retries >= 0
         /\ ex[p].suggests = 1
         /\ TraceEdges(p) = { <<PENDING, RUNNING>>, <<RUNNING, HEALING>>,
                              <<HEALING, RUNNING_RETRY>>, <<RUNNING_RETRY, FAILED>> }

-----------------------------------------------------------------------------
\* C21: a replacement locator is written to the cache only after it has been
\* validated to resolve on the page: every mapping of the persisted cache
\* belongs to a locator whose healed retry has succeeded.
C21_CachedOnlyAfterValidation ==
    cacheFile.state = "json" => DOMAIN cacheFile.data \subseteq healedOk

\* C22: a failing navigation action (goto) propagates its error at once,
\* whatever its target string: no cache read, no suggestion, no cache write
\* and no audit entry.
C22_GotoNeverHeals ==
    \A p \in Executors :
        ex[p].action = "goto" =>
            /\ ex[p].path # "locator"
            /\ ex[p].suggests = 0
            /\ ex[p].saves = 0
            /\ ex[p].logged = <<>>

\* C23: in fallback_locator_list no strategy is queried after a strategy whose
\* page query raised.
C23_NoQueryAfterRaise ==
    \A i, j \in DOMAIN fb.queries : i < j => ~fb.queries[i].raises

\* the number of calls of the action made by p with the given locator
CallsWith(p, locator) ==
    Cardinality({k \in DOMAIN ex[p].calls : ex[p].calls[k] = locator})

\* C25: for every retries >= 0 an invocation calls the action with the primary
\* (cache-resolved) locator exactly once, as its first call.
C25_PrimaryCalledOnce ==
    \A p \in Executors :
        (Done(p) /\ ex[p].path = "locator" /\ ex[p].retries >= 0) =>
            /\ CallsWith(p, ex[p].locator) = 1
            /\ ex[p].calls[1] = ex[p].locator
            /\ ex[p].attempt = 1

\* retries = MaxRetries > 0, the primary attempt failed, the healed retries
\* were used up: the primary locator was still called once
C25_Witness ==
    /\ Done(1)
    /\ ex[1].path = "locator"
    /\ ex[1].retries = MaxRetries
    /\ MaxRetries > 0
    /\ Len(ex[1].calls) = 1 + MAX_HEAL_RETRIES
    /\ CallsWith(1, ex[1].locator) = 1

\* C27: the persisted cache never maps a locator to itself and never maps a
\* locator to an empty value.
C27_NoIdentityNoEmptyMapping ==
    \A k \in DOMAIN cacheFile.data :
        /\ cacheFile.data[k] # k
        /\ cacheFile.data[k] \notin {None, ""}

\* a cache with two mappings, the second stored under a healed locator
C27_Witness ==
    /\ cacheFile.state = "json"
    /\ Cardinality(DOMAIN cacheFile.data) = 2
    /\ \E k \in DOMAIN cacheFile.data : cacheFile.data[k] \in DOMAIN cacheFile.data

\* C24: the cache store and the audit log are modified only by invocations
\* that reach HEALING: a step that changes either store is a step of an
\* invocation that is in HEALING or went through it, and an invocation that
\* ended without HEALING leaves the audit log as long as it found it.
C24_StoresWrittenOnlyWhenHealing ==
    /\ [](\A p \in Executors :
            (Done(p) /\ executors = {1} /\ HEALING \notin Range(ex[p].trace)) =>
                Len(auditLog) = ex[p].log0)
    /\ [][(cacheFile' # cacheFile \/ auditLog' # auditLog) =>
            \E p \in Executors :
                /\ ex'[p] # ex[p]
                /\ HEALING \in Range(ex[p].trace)]_vars

\* after an invocation that healed, one that started from the cached locator
\* and failed with a non-healable error left both stores alone
C24_Witness ==
    /\ Done(1)
    /\ Hit(1)
    /\ ex[1].result = "AssertionError"
    /\ HEALING \notin Range(ex[1].trace)
    /\ cacheFile.state = "json"
    /\ ex[1].log0 = 1
    /\ Len(auditLog) = 1

\* the texts of the lines of a file content
TextsOf(content) == [k \in DOMAIN content |-> content[k].text]

\* C26: generate_source_if_missing writes every non-blank line of the
\* normalised body into the file exactly once and in the original order,
\* the lines after an end marker included.
C26_EveryLineWrittenOnce ==
    (ag.op = "generate" /\ ag.pc = "done" /\ ~ag.existed /\ ~ag.raised) =>
        /\ ag.files[ag.file_path] # Absent
        /\ TextsOf(ag.files[ag.file_path].content) = clean_lines(ag.body)

====
